---- MODULE Spec2Model ----
(***************************************************************************)
(* Model of process-arpav-retriever: the water-level retriever             *)
(* (_ARPAVWaterLevelRetriever) and the pygeoapi processor that exposes it  *)
(* (ARPAVRetrieverProcessor).                                              *)
(*                                                                         *)
(* Python values are modelled as records with a "kind" field, so that      *)
(* None, a string, a list and a value of the wrong type stay distinct.     *)
(* Python strings that the code inspects with startswith / endswith are    *)
(* sequences of one-character strings.  Times are seconds on a common,     *)
(* timezone-naive axis.                                                    *)
(***************************************************************************)
EXTENDS Integers, Sequences, FiniteSets, TLC

----------------------------------------------------------------------------
(* Bounds of the model.                                                    *)

\* largest number of seconds the wall clock advances during one call
MaxClockDrift == 1
\* largest number of rows one upstream response carries
MaxRowsPerResponse == 1
\* largest number of rows fetched during one run
MaxRows == 2

----------------------------------------------------------------------------
(* Units and program constants.                                            *)

Hour == 3600
FiveMinutes == 5 * 60
LookbackHours == 48
HTTP_OK == 200

\* StatusException status codes (utils/status_exception.py is not part of
\* the sources at hand; the names are those the code uses).
DENIED == "DENIED"
INVALID == "INVALID"
ERROR == "ERROR"

\* os.getenv("INT_API_TOKEN", "token")
EnvToken == "token"

\* the keys of _ARPAV_RETRIEVERS
_ARPAV_RETRIEVERS == {"precipitation", "water_level"}

----------------------------------------------------------------------------
(* Python strings as character sequences.                                  *)

S3Scheme == <<"s", "3", ":", "/", "/">>
GeoJsonExt == <<".", "g", "e", "o", "j", "s", "o", "n">>

startswith(s, p) == Len(s) >= Len(p) /\ SubSeq(s, 1, Len(p)) = p
endswith(s, p) == Len(s) >= Len(p) /\ SubSeq(s, Len(s) - Len(p) + 1, Len(s)) = p

----------------------------------------------------------------------------
(* Request parameters.                                                     *)

\* a range parameter: None, a list of two numbers, or something malformed
Range(lo, hi) == [kind |-> "list2", lo |-> lo, hi |-> hi]
NotAList == [kind |-> "notlist", lo |-> 0, hi |-> 0]
BadElems == [kind |-> "badelem", lo |-> 0, hi |-> 0]
NoRange == [kind |-> "none", lo |-> 0, hi |-> 0]

LatRanges == {NoRange, Range(40, 46), Range(46, 40), Range(40, 91), NotAList, BadElems}
LongRanges == {NoRange, Range(10, 13), Range(13, 10), Range(-181, 13)}

\* one element of time_range: None, a non-string, a string that is not
\* ISO-8601, or an ISO-8601 string denoting the time t
TNone == [kind |-> "none", t |-> 0]
TNonStr == [kind |-> "nonstr", t |-> 0]
TBadStr == [kind |-> "badstr", t |-> 0]
Iso(t) == [kind |-> "iso", t |-> t]

\* 2025-07-23T10:00:00 on the model's axis
T0 == 100 * Hour

\* time_range: absent, a bare value, or a list
TimeAbsent == [kind |-> "none", elems |-> <<>>]
TimeBare(e) == [kind |-> "bare", elems |-> <<e>>]
TimeList(es) == [kind |-> "list", elems |-> es]

TimeRanges ==
    {TimeAbsent, TimeBare(TNonStr), TimeBare(TBadStr), TimeList(<<>>),
     TimeList(<<Iso(T0), TNonStr>>), TimeList(<<Iso(T0), TBadStr>>),
     TimeList(<<TNone, Iso(T0)>>)}
    \cup {TimeBare(Iso(t)) : t \in {T0, T0 + 125}}
    \cup {TimeList(<<Iso(t)>>) : t \in {T0}}
    \cup {TimeList(<<Iso(t), TNone>>) : t \in {T0, T0 + 120}}
    \cup {TimeList(<<Iso(T0), Iso(T0)>>), TimeList(<<Iso(T0), Iso(T0 + Hour)>>),
          TimeList(<<Iso(T0 + 120), Iso(T0 + 58 * 60)>>),
          TimeList(<<Iso(T0 + Hour), Iso(T0)>>)}

\* a string parameter: None, a non-string, or a string
NoStr == [kind |-> "none", s |-> <<>>]
NonStr == [kind |-> "nonstr", s |-> <<>>]
Str(s) == [kind |-> "str", s |-> s]

OutFormats == {NoStr, NonStr, Str(<<"geojson">>), Str(<<"dataframe">>)}
BucketDestinations ==
    {NoStr, NonStr, Str(S3Scheme \o <<"b">>), Str(<<"f", "t", "p", ":", "/", "/", "b">>)}
Outs == {NoStr, NonStr, Str(<<"d", "/", "o">> \o GeoJsonExt), Str(<<"o", ".", "t", "x", "t">>)}

\* token: absent, the configured secret, or another string
Tokens == {"None", "token", "wrong"}
\* debug: a boolean or something else
Debugs == {"False", "True", "notbool"}
\* variable: absent, a key of _ARPAV_RETRIEVERS, or another string
Variables == {"None", "precipitation", "water_level", "temperature"}

\* a request every parameter of which is valid
BaseKw ==
    [lat_range |-> Range(40, 46), long_range |-> Range(10, 13),
     time_range |-> TimeList(<<Iso(T0), Iso(T0 + Hour)>>),
     out_format |-> NoStr, bucket_destination |-> NoStr, out |-> NoStr]

\* the keyword arguments of the runs explored: every value of each parameter
\* around the valid request, and every combination of the parameters that
\* decide where the result goes
KwArgs ==
    {[BaseKw EXCEPT !.lat_range = l] : l \in LatRanges}
    \cup {[BaseKw EXCEPT !.long_range = l] : l \in LongRanges}
    \cup {[BaseKw EXCEPT !.time_range = t] : t \in TimeRanges}
    \cup {[BaseKw EXCEPT !.out_format = f, !.bucket_destination = b, !.out = o] :
            f \in OutFormats, b \in BucketDestinations, o \in Outs}

----------------------------------------------------------------------------
(* Exceptions.                                                             *)

NoExc == [type |-> "none", status |-> "", field |-> ""]
StatusException(status, field) ==
    [type |-> "StatusException", status |-> status, field |-> field]
PyError(type) == [type |-> type, status |-> "", field |-> ""]

----------------------------------------------------------------------------
(* _ARPAVWaterLevelRetriever.argument_validation                           *)

\* time_range[0] if type(time_range) in [list, tuple] else time_range
TimeStartOf(time_range) ==
    IF time_range.kind = "list" THEN time_range.elems[1]
    ELSE IF time_range.kind = "bare" THEN time_range.elems[1] ELSE TNone

\* time_range[1] if type(time_range) in [list, tuple] else None
TimeEndOf(time_range) ==
    IF time_range.kind = "list" THEN time_range.elems[2] ELSE TNone

\* the subscripts of lines 66-67 that raise IndexError
TimeRangeIndexError(time_range) ==
    time_range.kind = "list" /\ Len(time_range.elems) < 2

\* the checks of one range parameter; "" when it passes
RangeCheck(r, bound) ==
    IF r.kind = "none" THEN ""
    ELSE IF r.kind = "notlist" THEN "shape"
    ELSE IF r.kind = "badelem" THEN "type"
    ELSE IF r.lo < -bound \/ r.lo > bound \/ r.hi < -bound \/ r.hi > bound THEN "domain"
    ELSE IF r.lo > r.hi THEN "order"
    ELSE ""

\* lines 126-130 with the scheme test left out
BucketDestinationCheckNoScheme(b) ==
    IF b.kind = "none" THEN ""
    ELSE IF b.kind = "nonstr" THEN "type"
    ELSE ""

\* the checks of bucket_destination (lines 126-130); "" when it passes
BucketDestinationCheck(b) ==
    IF b.kind = "none" THEN ""
    ELSE IF b.kind = "nonstr" THEN "type"
    ELSE IF ~startswith(b.s, S3Scheme) THEN "scheme"
    ELSE ""

\* the truncation without second=0: only the minute is brought down
TruncateTimeKeepsSeconds(t) == t - ((t \div 60) % 5) * 60

\* t.replace(minute=(t.minute // 5) * 5, second=0, microsecond=0)
TruncateTime(t) == (t \div FiveMinutes) * FiveMinutes

Rejected(field) ==
    [exc |-> StatusException(INVALID, field), time_start |-> 0, time_end |-> 0,
     out_format |-> <<>>]

\* the validated arguments, or the exception the validator raises; nowv is
\* the reading of the wall clock at line 115
argument_validation(kw, nowv) ==
    IF TimeRangeIndexError(kw.time_range) THEN
        [exc |-> PyError("IndexError"), time_start |-> 0, time_end |-> 0,
         out_format |-> <<>>]
    ELSE
    LET ts == TimeStartOf(kw.time_range)
        te == TimeEndOf(kw.time_range)
        time_start == TruncateTime(ts.t)
        time_end == IF te.kind # "none" THEN TruncateTime(te.t) ELSE time_start + Hour
    IN  IF RangeCheck(kw.lat_range, 90) # "" THEN Rejected("lat_range")
        ELSE IF RangeCheck(kw.long_range, 180) # "" THEN Rejected("long_range")
        ELSE IF ts.kind = "none" THEN Rejected("time")
        ELSE IF ts.kind # "iso" THEN Rejected("time_start")
        ELSE IF te.kind \in {"nonstr", "badstr"} THEN Rejected("time_end")
        ELSE IF te.kind = "iso" /\ ts.t > te.t THEN Rejected("time_start")
        ELSE IF time_end < nowv - LookbackHours * Hour THEN Rejected("time_range")
        ELSE IF kw.out_format.kind = "nonstr" THEN Rejected("out_format")
        ELSE IF kw.out_format.kind = "str" /\ kw.out_format.s # <<"geojson">>
            THEN Rejected("out_format")
        ELSE IF BucketDestinationCheck(kw.bucket_destination) # ""
            THEN Rejected("bucket_destination")
        ELSE IF kw.out.kind = "nonstr" THEN Rejected("out")
        ELSE IF kw.out.kind = "str" /\ ~endswith(kw.out.s, GeoJsonExt) THEN Rejected("out")
        ELSE [exc |-> NoExc, time_start |-> time_start, time_end |-> time_end,
              out_format |-> <<"geojson">>]

----------------------------------------------------------------------------
(* Upstream rows and their decoding.                                       *)

\* the raw 'valore' payload of a row, by what json.loads(...).get('LIVELLO')
\* does with it
ValoreKinds == {"notstr", "badjson", "nonobj", "nokey", "null", "nonnum", "num"}
Valore(kind, level) == [kind |-> kind, level |-> level]

Row(station, t, lat, payload) ==
    [codice_stazione |-> station, date_time |-> t, latitudine |-> lat,
     longitudine |-> 12, valore |-> payload]

\* the rows the upstream may answer with: station 1 at the start of the
\* window with every shape of payload, and rows that one of the filters drops
RowSet ==
    {Row(1, T0, 45, Valore(k, 7)) : k \in ValoreKinds}
    \cup {Row(2, T0 + 1800, 45, Valore("num", 9)),
          Row(1, T0 - 600, 45, Valore("nonnum", 0)),
          Row(1, T0, 50, Valore("nonnum", 0))}

\* the sequences over S of length at most n
RECURSIVE SeqsUpTo(_, _)
SeqsUpTo(S, n) ==
    IF n <= 0 THEN {<<>>}
    ELSE LET shorter == SeqsUpTo(S, n - 1)
         IN  shorter \cup {Append(q, x) : q \in {r \in shorter : Len(r) = n - 1}, x \in S}

\* decoded values: NaN, None, a non-numeric object, or a number
NaN == [t |-> "nan", v |-> 0]
PyNone == [t |-> "none", v |-> 0]
PyStr == [t |-> "str", v |-> 0]
Num(v) == [t |-> "num", v |-> v]

\* extract_level: json.loads(level).get('LIVELLO', np.nan), NaN when that raises
extract_level(level) ==
    IF level.kind \in {"notstr", "badjson", "nonobj", "nokey"} THEN NaN
    ELSE IF level.kind = "null" THEN PyNone
    ELSE IF level.kind = "nonnum" THEN PyStr
    ELSE Num(level.level)

\* Series.apply infers the dtype of its result: a column of numbers, NaN and
\* None with at least one number or NaN becomes a float column (None -> NaN);
\* any other column keeps its objects
ApplyExtractLevel(rows) ==
    LET vals == [i \in 1..Len(rows) |-> extract_level(rows[i].valore)]
        numeric == /\ \E i \in 1..Len(rows) : vals[i].t \in {"num", "nan"}
                   /\ \A i \in 1..Len(rows) : vals[i].t # "str"
    IN  [i \in 1..Len(rows) |->
            [rows[i] EXCEPT !.valore =
                IF numeric /\ vals[i].t = "none" THEN NaN ELSE vals[i]]]

RECURSIVE Flatten(_)
Flatten(dfs) == IF dfs = <<>> THEN <<>> ELSE Head(dfs) \o Flatten(Tail(dfs))

InRange(x, r) == r.kind = "none" \/ (x >= r.lo /\ x <= r.hi)

\* lines 182-188: the exact window and the spatial ranges
KeepRow(row, lat_range, long_range, time_start, time_end) ==
    /\ row.date_time >= time_start
    /\ row.date_time <= time_end
    /\ InRange(row.latitudine, lat_range)
    /\ InRange(row.longitudine, long_range)

\* retrieve_data after the fetch loop (lines 170-190): ValueError from
\* pd.concat when no bucket was fetched, else the decoded, filtered table
BuildFrame(dfs, lat_range, long_range, time_start, time_end) ==
    IF dfs = <<>> THEN [exc |-> PyError("ValueError"), gdf |-> <<>>]
    ELSE [exc |-> NoExc,
          gdf |-> SelectSeq(ApplyExtractLevel(Flatten(dfs)),
                            LAMBDA r : KeepRow(r, lat_range, long_range,
                                               time_start, time_end))]

----------------------------------------------------------------------------
(* data_to_feature_collection                                              *)

RECURSIVE SortedSeq(_)
SortedSeq(S) ==
    IF S = {} THEN <<>>
    ELSE LET m == CHOOSE x \in S : \A y \in S : x <= y
         IN  <<m>> \o SortedSeq(S \ {m})

\* np.isnan(val) raises TypeError on None and on any non-numeric object
IsNanRaises(val) == val.t \in {"none", "str"}

\* [dt.isoformat(), val if not np.isnan(val) else None]
SeriesPair(row) ==
    [date_time |-> row.date_time,
     value |-> IF row.valore.t = "nan" THEN PyNone ELSE row.valore]

\* one Feature per group of groupby('codice_stazione'), groups in key order,
\* each with its rows in table order
data_to_feature_collection(gdf) ==
    IF \E i \in 1..Len(gdf) : IsNanRaises(gdf[i].valore) THEN
        [exc |-> PyError("TypeError"), features |-> <<>>]
    ELSE
        LET codes == SortedSeq({gdf[i].codice_stazione : i \in 1..Len(gdf)})
            group(c) == SelectSeq(gdf, LAMBDA r : r.codice_stazione = c)
        IN  [exc |-> NoExc,
             features |-> [k \in 1..Len(codes) |->
                [codice_stazione |-> codes[k],
                 water_level |-> [j \in 1..Len(group(codes[k])) |->
                                    SeriesPair(group(codes[k])[j])]]]]

----------------------------------------------------------------------------
(* State.                                                                  *)

VARIABLES
    pc,                    \* position of the caller / of run / of execute
    data,                  \* token, debug and variable of the execute request
    kw,                    \* the retriever's keyword arguments
    now,                   \* the wall clock
    call_time,             \* the wall clock when the call in progress began
    tmp_exists,            \* _tmp_data_folder exists on disk
    has_retriever,         \* a retriever instance has been constructed
    validated,             \* validated_args of run
    start_hour_delta,      \* retrieve_data, line 153
    end_hour_delta,        \* retrieve_data, line 154
    hour_delta,            \* loop variable of retrieve_data
    requests,              \* 'orario' of every GET issued in this call
    responses,             \* status code of every response received in this call
    hour_dfs,              \* hour_dfs of retrieve_data
    sensors_gdf,           \* the table retrieve_data returned
    wrote,                 \* files written in this call
    uploads,               \* files handed to s3_upload in this call
    exc,                   \* the exception in flight or raised
    outputs,               \* outputs of run / of execute
    result,                \* how the call ended: "returned" or "raised"
    cleaned,               \* garbage_folders ran in this call
    examined,              \* parameters the processor's validator examined
    self_variable,         \* ARPAVRetrieverProcessor.variable
    self_tmp_data_folder   \* ARPAVRetrieverProcessor._tmp_data_folder

vars ==
    <<pc, data, kw, now, call_time, tmp_exists, has_retriever, validated, start_hour_delta,
      end_hour_delta, hour_delta, requests, responses, hour_dfs, sensors_gdf, wrote,
      uploads, exc, outputs, result, cleaned, examined, self_variable, self_tmp_data_folder>>

\* the wall clock when a call starts: a whole number of hours before T0, or
\* long after the lookback window of every request has passed
NowInit == {T0 - Hour, T0 + 60 * Hour}

NoData == [token |-> "None", debug |-> "False", variable |-> "None"]
NoValidated == [exc |-> NoExc, time_start |-> 0, time_end |-> 0, out_format |-> <<>>]
NoOutputs == [kind |-> "none", status |-> "", keys |-> {}, rows |-> <<>>]

\* the requests sent through the processor
ExecData == [token : Tokens, debug : Debugs, variable : Variables]
ExecKwArgs ==
    {BaseKw,
     [BaseKw EXCEPT !.lat_range = Range(46, 40)],
     [BaseKw EXCEPT !.lat_range = Range(40, 91)],
     [BaseKw EXCEPT !.long_range = Range(13, 10)],
     [BaseKw EXCEPT !.time_range = TimeAbsent],
     [BaseKw EXCEPT !.time_range = TimeBare(TBadStr)],
     [BaseKw EXCEPT !.out_format = Str(<<"dataframe">>)],
     [BaseKw EXCEPT !.out = Str(<<"o", ".", "t", "x", "t">>)],
     [BaseKw EXCEPT !.out = Str(<<"d", "/", "o">> \o GeoJsonExt)],
     [BaseKw EXCEPT !.bucket_destination = Str(<<"f", "t", "p", ":", "/", "/", "b">>)],
     [BaseKw EXCEPT !.bucket_destination = Str(S3Scheme \o <<"b">>)]}

ProcessorFields == <<self_variable, self_tmp_data_folder, examined>>
RunFields ==
    <<validated, start_hour_delta, end_hour_delta, hour_delta, requests, responses,
      hour_dfs, sensors_gdf, wrote, uploads>>

\* the state of a call that has not started
FreshCall ==
    /\ validated' = NoValidated
    /\ start_hour_delta' = 0
    /\ end_hour_delta' = 0
    /\ hour_delta' = 0
    /\ requests' = <<>>
    /\ responses' = <<>>
    /\ hour_dfs' = <<>>
    /\ sensors_gdf' = <<>>
    /\ wrote' = <<>>
    /\ uploads' = <<>>
    /\ exc' = NoExc
    /\ outputs' = NoOutputs
    /\ result' = "none"
    /\ cleaned' = FALSE
    /\ examined' = {}

Init ==
    /\ pc = "idle"
    /\ data = NoData
    /\ kw = BaseKw
    /\ now \in NowInit
    /\ call_time = now
    /\ tmp_exists = FALSE
    /\ has_retriever = FALSE
    /\ validated = NoValidated
    /\ start_hour_delta = 0
    /\ end_hour_delta = 0
    /\ hour_delta = 0
    /\ requests = <<>>
    /\ responses = <<>>
    /\ hour_dfs = <<>>
    /\ sensors_gdf = <<>>
    /\ wrote = <<>>
    /\ uploads = <<>>
    /\ exc = NoExc
    /\ outputs = NoOutputs
    /\ result = "none"
    /\ cleaned = FALSE
    /\ examined = {}
    /\ self_variable = "None"
    /\ self_tmp_data_folder = "None"

\* what a read of the wall clock may return: the clock has moved forward
\* since it was last read, by at most MaxClockDrift since the call began
ClockReads == {t \in now..(call_time + MaxClockDrift) : t >= now}

----------------------------------------------------------------------------
(* External collaborators (utils/filesystem.py, utils/module_s3.py).       *)

\* filesystem.garbage_folders(folder): the folder is gone afterwards; a
\* value that names no folder leaves the disk as it is
garbage_folders(folder, exists) == IF folder = "None" THEN exists ELSE FALSE

\* module_s3.s3_upload(path, uri) -> bool
s3_upload_results == BOOLEAN

----------------------------------------------------------------------------
(* Callers.                                                                *)

\* time passes between calls: the next call starts at an instant of NowInit
\* that is not in the past
CallTimes == {t \in NowInit : t >= now}

\* _ARPAVWaterLevelRetriever.__init__: the folder is created when absent
Construct ==
    /\ pc = "idle"
    /\ has_retriever' = TRUE
    /\ tmp_exists' = TRUE
    /\ UNCHANGED <<pc, data, kw, now, call_time, RunFields, exc, outputs, result, cleaned,
                   ProcessorFields>>

\* a caller invokes run(**k) on the retriever it holds
CallRun ==
    /\ pc = "idle"
    /\ has_retriever
    /\ \E k \in KwArgs, t \in CallTimes :
        /\ kw' = k
        /\ now' = t
        /\ call_time' = t
    /\ FreshCall
    /\ data' = NoData
    /\ pc' = "run_validate"
    /\ UNCHANGED <<tmp_exists, has_retriever, self_variable, self_tmp_data_folder>>

\* the host framework constructs the processor (__init__, lines 160-169) and
\* invokes execute(data) on it
CallExecute ==
    /\ pc = "idle"
    /\ \E d \in ExecData, k \in ExecKwArgs, t \in CallTimes :
        /\ data' = d
        /\ kw' = k
        /\ now' = t
        /\ call_time' = t
    /\ FreshCall
    /\ self_variable' = "None"
    /\ self_tmp_data_folder' = "None"
    /\ pc' = "exec_validate"
    /\ UNCHANGED <<tmp_exists, has_retriever>>

\* the call is over: its caller consumes the result, and the objects of the
\* call (arguments, tables, the processor) are dropped
Return ==
    /\ pc \in {"run_done", "exec_done"}
    /\ pc' = "idle"
    /\ FreshCall
    /\ data' = NoData
    /\ kw' = BaseKw
    /\ self_variable' = "None"
    /\ self_tmp_data_folder' = "None"
    /\ call_time' = now
    /\ UNCHANGED <<now, tmp_exists, has_retriever>>

----------------------------------------------------------------------------
(* _ARPAVWaterLevelRetriever.run                                           *)

HasDirName(s) == \E i \in 1..Len(s) : s[i] = "/"

\* lines 270-286: argument_validation, which reads the clock once and creates
\* the parent directory of out when it accepts
RunValidate ==
    /\ pc = "run_validate"
    /\ \E t \in ClockReads :
        /\ now' = t
        /\ LET v == argument_validation(kw, t)
           IN  IF v.exc = NoExc
               THEN /\ validated' = v
                    /\ wrote' = IF kw.out.kind = "str" /\ HasDirName(kw.out.s)
                                THEN <<"out_dir">> ELSE <<>>
                    /\ exc' = exc
                    /\ pc' = "retrieve_start"
               ELSE /\ exc' = v.exc
                    /\ pc' = "run_except"
                    /\ UNCHANGED <<validated, wrote>>
    /\ UNCHANGED <<data, kw, call_time, tmp_exists, has_retriever, start_hour_delta,
                   end_hour_delta, hour_delta, requests, responses, hour_dfs, sensors_gdf,
                   uploads, outputs, result, cleaned, ProcessorFields>>

\* int((t - now).total_seconds() // 3600)
HourDelta(t, nowv) == (t - nowv) \div Hour

\* retrieve_data, line 153
RetrieveStartDelta ==
    /\ pc = "retrieve_start"
    /\ \E t \in ClockReads :
        /\ now' = t
        /\ start_hour_delta' = HourDelta(validated.time_start, t)
    /\ pc' = "retrieve_end"
    /\ UNCHANGED <<data, kw, call_time, tmp_exists, has_retriever, validated, end_hour_delta,
                   hour_delta, requests, responses, hour_dfs, sensors_gdf, wrote, uploads, exc,
                   outputs, result, cleaned, ProcessorFields>>

\* retrieve_data, lines 154-157: the second clock read and the loop's range
RetrieveEndDelta ==
    /\ pc = "retrieve_end"
    /\ \E t \in ClockReads :
        /\ now' = t
        /\ end_hour_delta' = HourDelta(validated.time_end, t)
    /\ hour_delta' = start_hour_delta
    /\ pc' = "fetch"
    /\ UNCHANGED <<data, kw, call_time, tmp_exists, has_retriever, validated, start_hour_delta,
                   requests, responses, hour_dfs, sensors_gdf, wrote, uploads, exc, outputs,
                   result, cleaned, ProcessorFields>>

\* the 'data' arrays a 200 response may carry, given the rows fetched so far
Responses ==
    LET room == MaxRows - Len(Flatten(hour_dfs))
        n == IF room < MaxRowsPerResponse THEN room ELSE MaxRowsPerResponse
    IN  SeqsUpTo(RowSet, n)

\* the status codes the upstream answers with
StatusCodes == {HTTP_OK, 500}

\* the loop without the test of line 164: a failed bucket counts as empty
FetchBucketIgnoresStatus ==
    /\ pc = "fetch"
    /\ hour_delta <= end_hour_delta
    /\ requests' = Append(requests, hour_delta)
    /\ \E status_code \in StatusCodes :
        /\ responses' = Append(responses, status_code)
        /\ \E rows \in Responses :
            hour_dfs' = Append(hour_dfs, IF status_code = HTTP_OK THEN rows ELSE <<>>)
    /\ hour_delta' = hour_delta + 1
    /\ UNCHANGED <<exc, pc>>
    /\ UNCHANGED <<data, kw, now, call_time, tmp_exists, has_retriever, validated,
                   start_hour_delta, end_hour_delta, sensors_gdf, wrote, uploads,
                   outputs, result, cleaned, ProcessorFields>>

\* one iteration of the loop, lines 157-168: one GET; a status other than
\* 200 raises, a 200 appends the bucket's rows
FetchBucket ==
    /\ pc = "fetch"
    /\ hour_delta <= end_hour_delta
    /\ requests' = Append(requests, hour_delta)
    /\ \/ /\ \E status_code \in StatusCodes \ {HTTP_OK} :
                responses' = Append(responses, status_code)
          /\ exc' = StatusException(ERROR, "upstream")
          /\ pc' = "run_except"
          /\ UNCHANGED <<hour_dfs, hour_delta>>
       \/ /\ responses' = Append(responses, HTTP_OK)
          /\ \E rows \in Responses : hour_dfs' = Append(hour_dfs, rows)
          /\ hour_delta' = hour_delta + 1
          /\ UNCHANGED <<exc, pc>>
    /\ UNCHANGED <<data, kw, now, call_time, tmp_exists, has_retriever, validated,
                   start_hour_delta, end_hour_delta, sensors_gdf, wrote, uploads,
                   outputs, result, cleaned, ProcessorFields>>

\* lines 170-190, after the loop
RetrieveFrame ==
    /\ pc = "fetch"
    /\ hour_delta > end_hour_delta
    /\ LET f == BuildFrame(hour_dfs, kw.lat_range, kw.long_range,
                           validated.time_start, validated.time_end)
       IN  IF f.exc = NoExc
           THEN /\ sensors_gdf' = f.gdf
                /\ pc' = "encode"
                /\ exc' = exc
           ELSE /\ exc' = f.exc
                /\ pc' = "run_except"
                /\ UNCHANGED sensors_gdf
    /\ UNCHANGED <<data, kw, now, call_time, tmp_exists, has_retriever, validated,
                   start_hour_delta, end_hour_delta, hour_delta, requests, responses, hour_dfs,
                   wrote, uploads, outputs, result, cleaned, ProcessorFields>>

\* lines 297-305: the table is encoded and written, to out when given, else
\* to a generated file under _tmp_data_folder
EncodeAndWrite ==
    /\ pc = "encode"
    /\ LET fc == data_to_feature_collection(sensors_gdf)
       IN  IF fc.exc # NoExc
           THEN /\ exc' = fc.exc
                /\ pc' = "run_except"
                /\ UNCHANGED wrote
           ELSE IF kw.out.kind = "none" /\ ~tmp_exists
           THEN /\ exc' = PyError("FileNotFoundError")
                /\ pc' = "run_except"
                /\ UNCHANGED wrote
           ELSE /\ wrote' = Append(wrote, IF kw.out.kind = "none"
                                          THEN "tmp_file" ELSE "out_file")
                /\ pc' = "upload"
                /\ exc' = exc
    /\ UNCHANGED <<data, kw, now, call_time, tmp_exists, has_retriever, validated,
                   start_hour_delta, end_hour_delta, hour_delta, requests, responses, hour_dfs,
                   sensors_gdf, uploads, outputs, result, cleaned, ProcessorFields>>

\* lines 307-317: the written file is uploaded when bucket_destination is given
Upload ==
    /\ pc = "upload"
    /\ IF kw.bucket_destination.kind = "none"
       THEN /\ pc' = "outputs"
            /\ UNCHANGED <<uploads, exc>>
       ELSE /\ uploads' = Append(uploads, wrote[Len(wrote)])
            /\ \E upload_status \in s3_upload_results :
                IF upload_status
                THEN pc' = "outputs" /\ exc' = exc
                ELSE pc' = "run_except" /\ exc' = StatusException(ERROR, "upload")
    /\ UNCHANGED <<data, kw, now, call_time, tmp_exists, has_retriever, validated,
                   start_hour_delta, end_hour_delta, hour_delta, requests, responses, hour_dfs,
                   sensors_gdf, wrote, outputs, result, cleaned, ProcessorFields>>

\* lines 319-337 with 'and' for the 'or' of line 320
PrepareOutputsBothRequired ==
    /\ pc = "outputs"
    /\ outputs' =
        IF kw.bucket_destination.kind # "none" /\ kw.out.kind # "none"
        THEN [kind |-> "summary", status |-> "OK",
              keys |-> {"status", IF Len(uploads) = 1 THEN "uri" ELSE "uris", "filepath"},
              rows |-> <<>>]
        ELSE [kind |-> "table", status |-> "", keys |-> {}, rows |-> sensors_gdf]
    /\ result' = "returned"
    /\ pc' = "run_finally"
    /\ UNCHANGED <<data, kw, now, call_time, tmp_exists, has_retriever, RunFields, exc,
                   cleaned, ProcessorFields>>

\* lines 319-337: the summary when out or bucket_destination was given, else
\* the table
PrepareOutputs ==
    /\ pc = "outputs"
    /\ outputs' =
        IF kw.bucket_destination.kind # "none" \/ kw.out.kind # "none"
        THEN [kind |-> "summary", status |-> "OK",
              keys |-> {"status"}
                       \cup (IF kw.bucket_destination.kind # "none"
                             THEN {IF Len(uploads) = 1 THEN "uri" ELSE "uris"} ELSE {})
                       \cup (IF kw.out.kind # "none" THEN {"filepath"} ELSE {}),
              rows |-> <<>>]
        ELSE [kind |-> "table", status |-> "", keys |-> {}, rows |-> sensors_gdf]
    /\ result' = "returned"
    /\ pc' = "run_finally"
    /\ UNCHANGED <<data, kw, now, call_time, tmp_exists, has_retriever, RunFields, exc, cleaned,
                   ProcessorFields>>

\* the handler of lines 339-340 if the cleanup were the last statement of
\* the try body instead of a finally clause
RunExceptSkipsCleanup ==
    /\ pc = "run_except"
    /\ exc' = StatusException(ERROR, exc.field)
    /\ result' = "raised"
    /\ pc' = "run_done"
    /\ UNCHANGED <<data, kw, now, call_time, tmp_exists, has_retriever, RunFields,
                   outputs, cleaned, ProcessorFields>>

\* lines 339-340: every exception of the body, a StatusException included,
\* is raised again as a StatusException with status ERROR
RunExcept ==
    /\ pc = "run_except"
    /\ exc' = StatusException(ERROR, exc.field)
    /\ result' = "raised"
    /\ pc' = "run_finally"
    /\ UNCHANGED <<data, kw, now, call_time, tmp_exists, has_retriever, RunFields, outputs,
                   cleaned, ProcessorFields>>

\* lines 342-345: the finally clause
RunFinally ==
    /\ pc = "run_finally"
    /\ tmp_exists' = garbage_folders("tmp", tmp_exists)
    /\ cleaned' = TRUE
    /\ pc' = "run_done"
    /\ UNCHANGED <<data, kw, now, call_time, has_retriever, RunFields, exc, outputs, result,
                   ProcessorFields>>

----------------------------------------------------------------------------
(* ARPAVRetrieverProcessor                                                 *)

\* the processor's validator with the token test moved after the others
ProcessorValidationTokenLast(d) ==
    IF d.debug = "notbool"
    THEN [exc |-> StatusException(INVALID, "debug"), examined |-> {"debug"},
          variable |-> "None", folder |-> "None"]
    ELSE IF d.variable = "None" \/ d.variable \notin _ARPAV_RETRIEVERS
    THEN [exc |-> StatusException(INVALID, "variable"), examined |-> {"debug", "variable"},
          variable |-> "None", folder |-> "None"]
    ELSE IF d.token = "None" \/ d.token # EnvToken
    THEN [exc |-> StatusException(DENIED, "token"),
          examined |-> {"token", "debug", "variable"},
          variable |-> d.variable, folder |-> "None"]
    ELSE [exc |-> PyError("TypeError"), examined |-> {"token", "debug", "variable"},
          variable |-> d.variable, folder |-> "class"]

\* argument_validation (lines 174-199): the exception it raises and the
\* parameters it has examined by then.  With a good token, a boolean debug
\* and a known variable it stores the retriever CLASS in _tmp_data_folder
\* and hands it to os.path.exists, which raises TypeError.
ProcessorValidation(d) ==
    IF d.token = "None" \/ d.token # EnvToken
    THEN [exc |-> StatusException(DENIED, "token"), examined |-> {"token"},
          variable |-> "None", folder |-> "None"]
    ELSE IF d.debug = "notbool"
    THEN [exc |-> StatusException(INVALID, "debug"), examined |-> {"token", "debug"},
          variable |-> "None", folder |-> "None"]
    ELSE IF d.variable = "None" \/ d.variable \notin _ARPAV_RETRIEVERS
    THEN [exc |-> StatusException(INVALID, "variable"),
          examined |-> {"token", "debug", "variable"},
          variable |-> "None", folder |-> "None"]
    ELSE [exc |-> PyError("TypeError"), examined |-> {"token", "debug", "variable"},
          variable |-> d.variable, folder |-> "class"]

\* execute, lines 210-213.  argument_validation never returns normally, so
\* lines 214-222 (constructing and running the retriever) are never reached.
ExecValidate ==
    /\ pc = "exec_validate"
    /\ LET v == ProcessorValidation(data)
       IN  /\ exc' = v.exc
           /\ examined' = v.examined
           /\ self_variable' = IF v.variable = "None" THEN self_variable ELSE v.variable
           /\ self_tmp_data_folder' =
                IF v.folder = "None" THEN self_tmp_data_folder ELSE v.folder
    /\ pc' = "exec_except"
    /\ UNCHANGED <<data, kw, now, call_time, tmp_exists, has_retriever, RunFields, outputs,
                   result, cleaned>>

\* lines 225-229: a StatusException becomes the status payload
ExecExceptStatus ==
    /\ pc = "exec_except"
    /\ exc.type = "StatusException"
    /\ outputs' = [kind |-> "payload", status |-> exc.status,
                   keys |-> {"status", "message"}, rows |-> <<>>]
    /\ pc' = "exec_cleanup"
    /\ UNCHANGED <<data, kw, now, call_time, tmp_exists, has_retriever, RunFields, exc, result,
                   cleaned, ProcessorFields>>

\* lines 230-235: any other exception leaves execute as ProcessorExecuteError
ExecExceptOther ==
    /\ pc = "exec_except"
    /\ exc.type # "StatusException"
    /\ outputs' = [kind |-> "payload", status |-> ERROR, keys |-> {"status", "error"},
                   rows |-> <<>>]
    /\ exc' = PyError("ProcessorExecuteError")
    /\ result' = "raised"
    /\ pc' = "exec_done"
    /\ UNCHANGED <<data, kw, now, call_time, tmp_exists, has_retriever, RunFields, cleaned,
                   ProcessorFields>>

\* lines 237-240: cleanup and return
ExecCleanup ==
    /\ pc = "exec_cleanup"
    /\ tmp_exists' = garbage_folders(self_tmp_data_folder, tmp_exists)
    /\ cleaned' = TRUE
    /\ result' = "returned"
    /\ pc' = "exec_done"
    /\ UNCHANGED <<data, kw, now, call_time, has_retriever, RunFields, exc, outputs,
                   ProcessorFields>>

----------------------------------------------------------------------------

Next ==
    \/ Construct
    \/ CallRun
    \/ CallExecute
    \/ Return
    \/ RunValidate
    \/ RetrieveStartDelta
    \/ RetrieveEndDelta
    \/ FetchBucket
    \/ RetrieveFrame
    \/ EncodeAndWrite
    \/ Upload
    \/ PrepareOutputs
    \/ RunExcept
    \/ RunFinally
    \/ ExecValidate
    \/ ExecExceptStatus
    \/ ExecExceptOther
    \/ ExecCleanup

Spec == Init /\ [][Next]_vars

----------------------------------------------------------------------------
(* Properties.                                                             *)

RunBodyPcs == {"retrieve_start", "retrieve_end", "fetch", "encode", "upload", "outputs"}
RunExitPcs == {"run_except", "run_finally", "run_done"}
ExecPcs == {"exec_except", "exec_cleanup", "exec_done"}

OutputFiles == {"tmp_file", "out_file"}
WroteOutputFile == \E i \in 1..Len(wrote) : wrote[i] \in OutputFiles

NeitherDestination == kw.bucket_destination.kind = "none" /\ kw.out.kind = "none"

\* C1: in every terminal state of run, whether it returned or raised, the
\* finally clause has run and the temporary folder is gone.
C1_CleanupOnEveryExit ==
    pc = "run_done" => (result \in {"returned", "raised"} /\ cleaned /\ ~tmp_exists)

\* a run that the upstream failed has ended with the folder removed
C1_Witness ==
    /\ pc = "run_done"
    /\ result = "raised"
    /\ exc.field = "upstream"
    /\ cleaned
    /\ ~tmp_exists

\* the position of the first response that is not a 200, or 0
FirstFailure ==
    IF \E i \in 1..Len(responses) : responses[i] # HTTP_OK
    THEN CHOOSE i \in 1..Len(responses) :
            /\ responses[i] # HTTP_OK
            /\ \A j \in 1..(i - 1) : responses[j] = HTTP_OK
    ELSE 0

\* C2: once a bucket has been answered with a status other than 200, the
\* failed request is the last one of the run (no later bucket, no retry),
\* no output file is written, nothing is uploaded, run returns nothing, and
\* it ends raising a StatusException with status ERROR.
C2_UpstreamFailureAborts ==
    FirstFailure # 0 =>
        /\ Len(requests) = FirstFailure
        /\ \A i \in 1..Len(requests) : requests[i] = start_hour_delta + i - 1
        /\ ~WroteOutputFile
        /\ uploads = <<>>
        /\ outputs = NoOutputs
        /\ result # "returned"
        /\ pc \in RunExitPcs
        /\ pc = "run_done" => (result = "raised" /\ exc = StatusException(ERROR, "upstream"))

\* a run whose second bucket failed after a first bucket that carried a row
C2_Witness ==
    /\ pc = "run_done"
    /\ FirstFailure = 2
    /\ Len(hour_dfs) = 1
    /\ hour_dfs[1] # <<>>
    /\ result = "raised"

BadScheme ==
    kw.bucket_destination.kind = "str" /\ ~startswith(kw.bucket_destination.s, S3Scheme)

\* C3: a run whose validator rejects the request issues no HTTP request,
\* writes nothing and uploads nothing; a bucket_destination that does not
\* start with 's3://' is always rejected, by a StatusException with status
\* INVALID, and such a run ends raising.
C3_RejectedBeforeAnyRequest ==
    /\ (pc \in RunExitPcs /\ validated = NoValidated) =>
            (requests = <<>> /\ wrote = <<>> /\ uploads = <<>>)
    /\ (BadScheme /\ pc \in RunBodyPcs \cup RunExitPcs) =>
            /\ pc \in RunExitPcs
            /\ validated = NoValidated
            /\ requests = <<>>
            /\ exc.type = "StatusException"
            /\ pc = "run_except" => exc.status = INVALID
            /\ result # "returned"

\* a run with an ftp:// destination and every other parameter valid has
\* ended raising, without a request
C3_Witness ==
    /\ pc = "run_done"
    /\ BadScheme
    /\ kw = [BaseKw EXCEPT !.bucket_destination = kw.bucket_destination]
    /\ exc.field = "bucket_destination"
    /\ result = "raised"
    /\ requests = <<>>

TokenOk == data.token # "None" /\ data.token = EnvToken
ProcessorArgsOk ==
    TokenOk /\ data.debug # "notbool" /\ data.variable \in _ARPAV_RETRIEVERS

\* C4: a request with a correct token and a known variable whose retriever
\* parameters the retriever's validator rejects is answered by execute with
\* a payload of status INVALID, not with an execution error.
C4_InvalidParametersGiveInvalidPayload ==
    (pc = "exec_done" /\ ProcessorArgsOk
        /\ argument_validation(kw, call_time).exc.status = INVALID) =>
            (result = "returned" /\ outputs.kind = "payload" /\ outputs.status = INVALID)

\* C5: a request whose token is missing or wrong has only its token
\* examined, causes no HTTP request, file write or upload, leaves the
\* processor's variable unset, and is answered with a DENIED payload.
C5_WrongTokenDenied ==
    (pc \in ExecPcs /\ ~TokenOk) =>
        /\ examined = {"token"}
        /\ self_variable = "None"
        /\ self_tmp_data_folder = "None"
        /\ requests = <<>>
        /\ wrote = <<>>
        /\ uploads = <<>>
        /\ pc = "exec_except" => exc = StatusException(DENIED, "token")
        /\ pc = "exec_done" =>
            (result = "returned" /\ outputs.kind = "payload" /\ outputs.status = DENIED)

\* a request with a wrong token and a malformed debug flag was denied
C5_Witness ==
    /\ pc = "exec_done"
    /\ data.token = "wrong"
    /\ data.debug = "notbool"
    /\ result = "returned"
    /\ outputs.status = DENIED

\* C6: a request with a correct token, a known variable and valid retriever
\* parameters makes execute return a success response (the OK summary or
\* the encoded table), not an execution error.
C6_ValidRequestSucceeds ==
    (pc = "exec_done" /\ ProcessorArgsOk
        /\ argument_validation(kw, call_time).exc = NoExc) =>
            (result = "returned" /\ outputs.kind \in {"summary", "table"})

\* the keys of the summary follow the destinations given
SummaryPolicy ==
    /\ outputs.kind = "summary"
    /\ outputs.status = "OK"
    /\ "uri" \in outputs.keys <=> kw.bucket_destination.kind # "none"
    /\ "filepath" \in outputs.keys <=> kw.out.kind # "none"

\* C7 as stated: a run that returns gives back the filtered table and has
\* written no output file when neither out nor bucket_destination was given,
\* and otherwise gives back the OK summary with 'uri' exactly when
\* bucket_destination was given and 'filepath' exactly when out was given.
C7_ReturnPolicyNoFileWritten ==
    (pc = "run_done" /\ result = "returned") =>
        IF NeitherDestination
        THEN /\ outputs.kind = "table"
             /\ outputs.rows = sensors_gdf
             /\ ~WroteOutputFile
        ELSE SummaryPolicy

\* C7 as amended: with neither destination the run returns the filtered
\* table, and the one file it has written is the generated file under the
\* temporary folder, which is gone with the folder when run returns;
\* otherwise it returns the OK summary with 'uri' exactly when
\* bucket_destination was given and 'filepath' exactly when out was given.
C7_ReturnPolicy ==
    (pc = "run_done" /\ result = "returned") =>
        IF NeitherDestination
        THEN /\ outputs.kind = "table"
             /\ outputs.rows = sensors_gdf
             /\ sensors_gdf = BuildFrame(hour_dfs, kw.lat_range, kw.long_range,
                                         validated.time_start, validated.time_end).gdf
             /\ wrote = <<"tmp_file">>
             /\ ~tmp_exists
        ELSE SummaryPolicy

\* a run with neither destination has returned a table of two rows
C7_Witness ==
    /\ pc = "run_done"
    /\ result = "returned"
    /\ NeitherDestination
    /\ outputs.kind = "table"
    /\ Len(outputs.rows) = 2
    /\ wrote = <<"tmp_file">>

\* time_range carries a start only: a bare string, a list of one string, or
\* a list whose second element is None
OnlyStart ==
    /\ kw.time_range.kind \in {"bare", "list"}
    /\ Len(kw.time_range.elems) >= 1
    /\ kw.time_range.elems[1].kind = "iso"
    /\ Len(kw.time_range.elems) = 2 => kw.time_range.elems[2].kind = "none"

\* C8: a request whose time_range carries only a start, inside the lookback
\* window and with every other parameter valid, is accepted with time_end =
\* truncated time_start + 1 hour.
C8_AbsentEndDefaults ==
    (pc \in RunBodyPcs \cup RunExitPcs /\ OnlyStart
        /\ kw = [BaseKw EXCEPT !.time_range = kw.time_range]
        /\ call_time = T0 - Hour) =>
            /\ validated # NoValidated
            /\ validated.time_start = TruncateTime(kw.time_range.elems[1].t)
            /\ validated.time_end = validated.time_start + Hour

\* C9: once both offsets are computed the range of buckets is not empty, it
\* is a single bucket when time_start = time_end, and the requests issued so
\* far are the offsets from the first one on, in steps of one.
C9_BucketsCoverWindow ==
    pc = "fetch" =>
        /\ start_hour_delta <= end_hour_delta
        /\ validated.time_start = validated.time_end => start_hour_delta = end_hour_delta
        /\ \A i \in 1..Len(requests) : requests[i] = start_hour_delta + i - 1

\* C10: no payload of a fetched row aborts the run: the body of run raises
\* no TypeError, and in the table a run returns every value is a number or
\* missing.
C10_DecodeIsFailSoft ==
    /\ pc = "run_except" => exc.type # "TypeError"
    /\ (pc = "run_done" /\ result = "returned") =>
            \A i \in 1..Len(sensors_gdf) : sensors_gdf[i].valore.t \in {"nan", "num"}

\* C11: a run without out that gets to write its generated file finds the
\* temporary folder on disk, whatever runs came before it on this or on
\* another instance, and no run ends on the folder being absent.
C11_RunFindsItsTemporaryFolder ==
    /\ (pc = "encode" /\ kw.out.kind = "none"
            /\ data_to_feature_collection(sensors_gdf).exc = NoExc) => tmp_exists
    /\ pc = "run_except" => exc.type # "FileNotFoundError"

\* b is the 5-minute boundary at or before t
FloorBoundary(b, t) == b % (5 * 60) = 0 /\ b <= t /\ t < b + 5 * 60

\* timestamps around T0: whole minutes and minutes with seconds
SampleTimes == {T0 + 60 * m + sec : m \in 0..6, sec \in {0, 1, 59}} \cup {T0 + 58 * 60}

\* C12: the validated time_start is the 5-minute boundary at or before the
\* start given, the validated time_end the one at or before the end given
\* (or time_start + 1 hour when none was given), both are fixed points of the
\* truncation, and truncating any timestamp gives the boundary at or before
\* it, which truncating again leaves unchanged; 10:02:00 - 10:58:00
\* validates to 10:00:00 - 10:55:00.
C12_TruncationIdempotent ==
    validated # NoValidated =>
        LET ts == TimeStartOf(kw.time_range)
            te == TimeEndOf(kw.time_range)
        IN  /\ FloorBoundary(validated.time_start, ts.t)
            /\ te.kind = "iso" => FloorBoundary(validated.time_end, te.t)
            /\ te.kind = "none" => validated.time_end = validated.time_start + Hour
            /\ TruncateTime(validated.time_start) = validated.time_start
            /\ TruncateTime(validated.time_end) = validated.time_end
            /\ (ts.t = T0 + 2 * 60 /\ te.kind = "iso" /\ te.t = T0 + 58 * 60) =>
                    (validated.time_start = T0 /\ validated.time_end = T0 + 55 * 60)
            /\ pc = "retrieve_start" =>
                    \A t \in SampleTimes :
                        /\ FloorBoundary(TruncateTime(t), t)
                        /\ TruncateTime(TruncateTime(t)) = TruncateTime(t)

\* the window 10:02:00 - 10:58:00 has been validated to 10:00:00 - 10:55:00
C12_Witness ==
    /\ pc = "retrieve_start"
    /\ kw.time_range = TimeList(<<Iso(T0 + 2 * 60), Iso(T0 + 58 * 60)>>)
    /\ validated.time_start = T0
    /\ validated.time_end = T0 + 55 * 60

\* the positions of the rows of station c, in table order
StationRows(gdf, c) == SortedSeq({i \in 1..Len(gdf) : gdf[i].codice_stazione = c})

\* the features are one per station code of the table, and the series of
\* each holds that station's rows, one pair per row, in table order
OneFeaturePerStation(gdf, features) ==
    LET codes == {gdf[i].codice_stazione : i \in 1..Len(gdf)}
    IN  /\ Len(features) = Cardinality(codes)
        /\ \A c \in codes :
            \E k \in 1..Len(features) :
                /\ features[k].codice_stazione = c
                /\ \A m \in 1..Len(features) :
                        features[m].codice_stazione = c => m = k
                /\ LET idx == StationRows(gdf, c)
                       series == features[k].water_level
                   IN  /\ Len(series) = Len(idx)
                       /\ \A j \in 1..Len(idx) :
                            /\ series[j].date_time = gdf[idx[j]].date_time
                            /\ series[j].value =
                                IF gdf[idx[j]].valore.t = "nan" THEN PyNone
                                ELSE gdf[idx[j]].valore

\* C13: for every table handed to data_to_feature_collection, the call
\* emits one Feature per distinct station code of the table, each with
\* exactly that station's readings as [timestamp, value-or-null] pairs in
\* table order; the empty table gives no feature.
C13_OneFeaturePerStation ==
    pc = "encode" =>
        LET fc == data_to_feature_collection(sensors_gdf)
        IN  /\ fc.exc = NoExc
            /\ OneFeaturePerStation(sensors_gdf, fc.features)
            /\ sensors_gdf = <<>> => fc.features = <<>>

====
